---- MODULE Spec2Model ----
(***************************************************************************)
(* Model of ChartDBProvider (src/context/chartdb-context/                  *)
(* chartdb-provider.tsx): the diagram state held in React state cells, the  *)
(* mutation operations (synchronous in-memory update, asynchronous calls   *)
(* to the storage gateway, history recording after the calls settle), the  *)
(* storage gateway and the undo/redo stacks.                               *)
(*                                                                         *)
(* React state.  setX(updater) queues an update; React applies the queued  *)
(* updates in the order they were queued.  The variables diagramId,        *)
(* diagramName, databaseType, tables and relationships hold the state      *)
(* cells with every queued update applied (the Store).  The callbacks of   *)
(* the provider close over the values of the last render: `rendered` is    *)
(* that snapshot, and Render copies the cells into it.  Every read a       *)
(* callback makes of diagramId, diagramName, tables or relationships       *)
(* (directly or through getTable/getField/getIndex/getRelationship) is a   *)
(* read of `rendered`.                                                     *)
(*                                                                         *)
(* Optional values (T | null) are sequences of length at most one.         *)
(***************************************************************************)
EXTENDS Integers, Sequences, FiniteSets, TLC

\* ------------------------------------------------------------------ bounds
MaxOps == 2      \* operations invoked by callers
MaxUndo == 1     \* undo/redo steps taken by the history controller
MaxLoads == 1    \* loads invoked by callers

\* ----------------------------------------------------------------- helpers
None == <<>>
Some(v) == <<v>>

\* { id, ...patch }
WithId(id, p) == [k \in DOMAIN p \cup {"id"} |-> IF k = "id" THEN id ELSE p[k]]

Pick(p, e, k) == IF k \in DOMAIN p THEN p[k] ELSE e[k]

\* Array.prototype.find on ids: the first match, or null
Find(seq, id) ==
    LET hits == SelectSeq(seq, LAMBDA e : e.id = id)
    IN  IF hits = <<>> THEN None ELSE Some(hits[1])

Ids(seq) == {seq[i].id : i \in DOMAIN seq}

IdSeq(seq) == [i \in DOMAIN seq |-> seq[i].id]

InSeq(v, seq) == \E i \in DOMAIN seq : seq[i] = v

\* ---------------------------------------------------------------- entities
\* { ...entity, ...patch }: the keys of the patch win, the others stay.
MergeField(f, p) ==
    [id |-> Pick(p, f, "id"), name |-> Pick(p, f, "name"),
     type |-> Pick(p, f, "type")]

MergeIndex(x, p) ==
    [id |-> Pick(p, x, "id"), name |-> Pick(p, x, "name"),
     fieldIds |-> Pick(p, x, "fieldIds")]

MergeTable(t, p) ==
    [id |-> Pick(p, t, "id"), name |-> Pick(p, t, "name"),
     x |-> Pick(p, t, "x"), fields |-> Pick(p, t, "fields"),
     indexes |-> Pick(p, t, "indexes")]

MergeRelationship(r, p) ==
    [id |-> Pick(p, r, "id"), name |-> Pick(p, r, "name"),
     sourceTableId |-> Pick(p, r, "sourceTableId"),
     targetTableId |-> Pick(p, r, "targetTableId")]

\* -------------------------------------------------- the state updaters
\* The pure functions handed to setTables / setRelationships.
\* Mutant: the table is not put into the Store before the storage call.
addTableUpdaterDeferred(ts, table) == ts

addTableUpdater(ts, table) == Append(ts, table)

removeTableUpdater(ts, id) == SelectSeq(ts, LAMBDA t : t.id # id)

updateTableUpdater(ts, id, p) ==
    [i \in DOMAIN ts |-> IF ts[i].id = id THEN MergeTable(ts[i], p) ELSE ts[i]]

\* updateFn is given by a descriptor: {kind "keep"}: the tables whose id is in
\* `keep`, each as {id, ...patch}; {kind "const"}: a fixed sequence of tables
\* (what the history controller passes: () => tables).
updateFn(fn, prevTables) ==
    IF fn.kind = "const" THEN fn.tables
    ELSE LET kept == SelectSeq(prevTables, LAMBDA t : t.id \in fn.keep)
         IN  [i \in DOMAIN kept |-> WithId(kept[i].id, fn.patch)]

updateTables(fn, prevTables) ==
    LET updatedTables == updateFn(fn, prevTables)
        merged == [i \in DOMAIN prevTables |->
                     LET u == Find(updatedTables, prevTables[i].id)
                     IN  IF u # None THEN MergeTable(prevTables[i], u[1])
                         ELSE prevTables[i]]
    IN  SelectSeq(merged, LAMBDA t : t.id \in Ids(updatedTables))

addFieldUpdater(ts, tableId, field) ==
    [i \in DOMAIN ts |->
        IF ts[i].id = tableId
        THEN MergeTable(ts[i], [fields |-> Append(ts[i].fields, field)])
        ELSE ts[i]]

updateFieldList(fields, fieldId, p) ==
    [j \in DOMAIN fields |->
        IF fields[j].id = fieldId THEN MergeField(fields[j], p) ELSE fields[j]]

updateFieldUpdater(ts, tableId, fieldId, p) ==
    [i \in DOMAIN ts |->
        IF ts[i].id = tableId
        THEN MergeTable(ts[i], [fields |-> updateFieldList(ts[i].fields, fieldId, p)])
        ELSE ts[i]]

removeFieldList(fields, fieldId) == SelectSeq(fields, LAMBDA f : f.id # fieldId)

\* Mutant: removing a field also removes its id from the table's indexes.
removeFieldUpdaterCascading(ts, tableId, fieldId) ==
    [i \in DOMAIN ts |->
        IF ts[i].id = tableId
        THEN MergeTable(ts[i],
                [fields |-> removeFieldList(ts[i].fields, fieldId),
                 indexes |-> [k \in DOMAIN ts[i].indexes |->
                     [ts[i].indexes[k] EXCEPT !.fieldIds =
                         SelectSeq(@, LAMBDA f : f # fieldId)]]])
        ELSE ts[i]]

removeFieldUpdater(ts, tableId, fieldId) ==
    [i \in DOMAIN ts |->
        IF ts[i].id = tableId
        THEN MergeTable(ts[i], [fields |-> removeFieldList(ts[i].fields, fieldId)])
        ELSE ts[i]]

addIndexUpdater(ts, tableId, index) ==
    [i \in DOMAIN ts |->
        IF ts[i].id = tableId
        THEN MergeTable(ts[i], [indexes |-> Append(ts[i].indexes, index)])
        ELSE ts[i]]

updateIndexList(indexes, indexId, p) ==
    [j \in DOMAIN indexes |->
        IF indexes[j].id = indexId THEN MergeIndex(indexes[j], p) ELSE indexes[j]]

updateIndexUpdater(ts, tableId, indexId, p) ==
    [i \in DOMAIN ts |->
        IF ts[i].id = tableId
        THEN MergeTable(ts[i], [indexes |-> updateIndexList(ts[i].indexes, indexId, p)])
        ELSE ts[i]]

removeIndexList(indexes, indexId) == SelectSeq(indexes, LAMBDA x : x.id # indexId)

removeIndexUpdater(ts, tableId, indexId) ==
    [i \in DOMAIN ts |->
        IF ts[i].id = tableId
        THEN MergeTable(ts[i], [indexes |-> removeIndexList(ts[i].indexes, indexId)])
        ELSE ts[i]]

addRelationshipUpdater(rs, relationship) == Append(rs, relationship)

addRelationshipsUpdater(rs, added) == rs \o added

removeRelationshipUpdater(rs, id) == SelectSeq(rs, LAMBDA r : r.id # id)

removeRelationshipsUpdater(rs, ids) ==
    SelectSeq(rs, LAMBDA r : ~InSeq(r.id, ids))

updateRelationshipUpdater(rs, id, p) ==
    [i \in DOMAIN rs |->
        IF rs[i].id = id THEN MergeRelationship(rs[i], p) ELSE rs[i]]

\* ------------------------------------------------------- the read accessors
\* Each is evaluated on the tables / relationships of a render.
getTable(ts, id) == Find(ts, id)

getField(ts, tableId, fieldId) ==
    LET table == getTable(ts, tableId)
    IN  IF table = None THEN None ELSE Find(table[1].fields, fieldId)

getIndex(ts, tableId, indexId) ==
    LET table == getTable(ts, tableId)
    IN  IF table = None THEN None ELSE Find(table[1].indexes, indexId)

getRelationship(rs, id) == Find(rs, id)

\* --------------------------------------------------------------- variables
VARIABLES
    diagramId, diagramName, databaseType, tables, relationships,  \* the Store
    rendered,     \* the values of the last render, which the callbacks read
    db,           \* the storage gateway's contents
    undoStack, redoStack,   \* the History Log
    ops,          \* the operations in flight, in invocation order
    n,            \* how many operations, undo/redo steps and loads were invoked
    done,         \* the completion that settled last (none yet: <<>>)
    lastCall,     \* the storage call that settled last (none yet: <<>>)
    ghost         \* history variable: the Action pushed last, the height of
                  \* undoStack with it, and the Store component its operation
                  \* mutated, before and after the mutation

store == <<diagramId, diagramName, databaseType, tables, relationships>>
vars == <<diagramId, diagramName, databaseType, tables, relationships,
          rendered, db, undoStack, redoStack, ops, n, done, lastCall, ghost>>

\* ------------------------------------------------- the storage gateway
\* db.diagrams: diagram records; db.tables / db.relationships: rows
\* [diagramId, row] nested under their diagram.
DbGetTable(d, did, id) ==
    LET hits == {r \in d.tables : r.diagramId = did /\ r.row.id = id}
    IN  IF hits = {} THEN None ELSE Some((CHOOSE r \in hits : TRUE).row)

DbAddTable(d, did, table) ==
    [d EXCEPT !.tables = {r \in @ : r.row.id # table.id}
                           \cup {[diagramId |-> did, row |-> table]}]

DbUpdateTable(d, id, attrs) ==
    [d EXCEPT !.tables = {IF r.row.id = id
                          THEN [r EXCEPT !.row = MergeTable(r.row, attrs)]
                          ELSE r : r \in @}]

DbDeleteTable(d, did, id) ==
    [d EXCEPT !.tables = {r \in @ : ~(r.diagramId = did /\ r.row.id = id)}]

DbAddRelationship(d, did, rel) ==
    [d EXCEPT !.relationships = {r \in @ : r.row.id # rel.id}
                                  \cup {[diagramId |-> did, row |-> rel]}]

DbUpdateRelationship(d, id, attrs) ==
    [d EXCEPT !.relationships =
        {IF r.row.id = id
         THEN [r EXCEPT !.row = MergeRelationship(r.row, attrs)]
         ELSE r : r \in @}]

DbDeleteRelationship(d, did, id) ==
    [d EXCEPT !.relationships =
        {r \in @ : ~(r.diagramId = did /\ r.row.id = id)}]

MergeDiagram(g, p) ==
    [id |-> Pick(p, g, "id"), name |-> Pick(p, g, "name"),
     databaseType |-> Pick(p, g, "databaseType")]

\* A diagram keeps its tables and relationships when its id is rotated.
DbUpdateDiagram(d, id, attrs) ==
    LET newId == IF "id" \in DOMAIN attrs THEN attrs.id ELSE id
        known == \E g \in d.diagrams : g.id = id
        move(rows) == {IF r.diagramId = id /\ known
                       THEN [r EXCEPT !.diagramId = newId] ELSE r : r \in rows}
    IN  [diagrams |-> {IF g.id = id THEN MergeDiagram(g, attrs) ELSE g
                         : g \in d.diagrams},
         tables |-> move(d.tables),
         relationships |-> move(d.relationships)]

DbGetDiagram(d, id) ==
    LET hits == {g \in d.diagrams : g.id = id}
    IN  IF hits = {} THEN None ELSE Some(CHOOSE g \in hits : TRUE)

\* The effect of one storage call that succeeds.
Exec(d, c) ==
    CASE c.call = "addTable" -> DbAddTable(d, c.diagramId, c.table)
      [] c.call = "updateTable" -> DbUpdateTable(d, c.id, c.attributes)
      [] c.call = "deleteTable" -> DbDeleteTable(d, c.diagramId, c.id)
      [] c.call = "addRelationship" ->
            DbAddRelationship(d, c.diagramId, c.relationship)
      [] c.call = "updateRelationship" ->
            DbUpdateRelationship(d, c.id, c.attributes)
      [] c.call = "deleteRelationship" ->
            DbDeleteRelationship(d, c.diagramId, c.id)
      [] c.call = "updateDiagram" -> DbUpdateDiagram(d, c.id, c.attributes)

\* ------------------------------------------------------------ input values
F1 == [id |-> "f1", name |-> "id", type |-> "bigint"]
F2 == [id |-> "f2", name |-> "email", type |-> "text"]
F3 == [id |-> "f3", name |-> "age", type |-> "int"]
I1 == [id |-> "i1", name |-> "ix", fieldIds |-> <<"f1">>]
I2 == [id |-> "i2", name |-> "iy", fieldIds |-> <<>>]
T1 == [id |-> "t1", name |-> "users", x |-> 0,
       fields |-> <<F1, F2>>, indexes |-> <<I1>>]
T2 == [id |-> "t2", name |-> "orders", x |-> 0,
       fields |-> <<F1>>, indexes |-> <<>>]
R1 == [id |-> "r1", name |-> "users_users_fk",
       sourceTableId |-> "t1", targetTableId |-> "t1"]
R2 == [id |-> "r2", name |-> "orders_users_fk",
       sourceTableId |-> "t2", targetTableId |-> "t1"]
R3 == [id |-> "r3", name |-> "users_orders_fk",
       sourceTableId |-> "t1", targetTableId |-> "t2"]

TableIds == {"t1", "t2"}
FieldIds == {"f1", "f2"}
IndexIds == {"i1"}
RelationshipIds == {"r1", "r2"}
NewTables == {T2}
NewFields == {F3}
NewIndexes == {I2}
NewRelationships == {R2}
NewRelationshipLists == {<<R2, R3>>}
RelationshipIdLists == {<<"r1", "r2">>, <<"r2">>}
TablePatches == {[name |-> "people"]}
FieldPatches == {[type |-> "int"]}
IndexPatches == {[fieldIds |-> <<"f2">>]}
RelationshipPatches == {[name |-> "fk"]}
UpdateFns == {[kind |-> "keep", keep |-> {"t1", "t2"}, patch |-> [x |-> 1]],
              [kind |-> "keep", keep |-> {"t2"}, patch |-> [name |-> "kept"]]}
DiagramNames == {"store"}
DatabaseTypes == {"postgresql"}
NewDiagramIds == {"d2", "d3"}
LoadIds == {"d1", "d9"}

\* What storage holds when the provider is constructed: one saved diagram.
InitDb ==
    [diagrams |-> {[id |-> "d1", name |-> "shop", databaseType |-> "mysql"]},
     tables |-> {[diagramId |-> "d1", row |-> T1]},
     relationships |-> {[diagramId |-> "d1", row |-> R1]}]

\* The provider as constructed (useState's initial values), and the provider
\* once the editor has loaded the saved diagram and rendered (the state
\* loadDiagram("d1"), LoadStep and Render lead to).
Constructed ==
    /\ diagramId = ""
    /\ diagramName = ""
    /\ databaseType = "generic"
    /\ tables = <<>>
    /\ relationships = <<>>

Loaded ==
    /\ diagramId = "d1"
    /\ diagramName = "shop"
    /\ databaseType = "mysql"
    /\ tables = <<T1>>
    /\ relationships = <<R1>>

Init ==
    /\ Constructed \/ Loaded
    /\ rendered = [diagramId |-> diagramId, diagramName |-> diagramName,
                   tables |-> tables, relationships |-> relationships]
    /\ db = InitDb
    /\ undoStack = <<>>
    /\ redoStack = <<>>
    /\ ops = <<>>
    /\ n = [ops |-> 0, undo |-> 0, loads |-> 0]
    /\ done = None
    /\ lastCall = None
    /\ ghost = None

\* ------------------------------------------------------------------ render
\* React renders the provider: the callbacks now close over the current cells.
Render ==
    /\ rendered # [diagramId |-> diagramId, diagramName |-> diagramName,
                   tables |-> tables, relationships |-> relationships]
    /\ rendered' = [diagramId |-> diagramId, diagramName |-> diagramName,
                    tables |-> tables, relationships |-> relationships]
    /\ UNCHANGED <<store, db, undoStack, redoStack, ops, n, done, lastCall, ghost>>

\* ------------------------------------------------- operations: invocation
\* The record of an operation in flight.  pc: "get" (awaiting db.getTable),
\* "load" (awaiting db.getDiagram) or "write" (awaiting the calls in `calls`).
\* act: the Action the operation records once its calls have succeeded.
\* found, inStore, pre, post are history fields: whether the prior-state
\* lookup found the entity, whether the Store held it, and the Store
\* component the operation mutates, before and after its mutation.
NewOp(kind, a, uh, pc, calls, act, found, inStore, pre, post) ==
    [n |-> n.ops + n.undo + n.loads + 1, kind |-> kind, a |-> a, uh |-> uh,
     pc |-> pc, did |-> rendered.diagramId, calls |-> calls, act |-> act,
     status |-> "pending", writes |-> 0,
     found |-> found, inStore |-> inStore, pre |-> pre, post |-> post]

Action(name, redoData, undoData) ==
    [action |-> name, redoData |-> redoData, undoData |-> undoData]

Recorded(cond, action) == IF cond THEN Some(action) ELSE None

updateDatabaseTypeOp(type) ==
    /\ databaseType' = type
    /\ ops' = Append(ops, NewOp("updateDatabaseType", [databaseType |-> type],
                FALSE, "write",
                {[call |-> "updateDiagram", id |-> rendered.diagramId,
                  attributes |-> [databaseType |-> type]]},
                None, TRUE, TRUE, Some(databaseType), Some(type)))
    /\ UNCHANGED <<diagramId, diagramName, tables, relationships>>

updateDiagramIdOp(id) ==
    LET prevId == rendered.diagramId IN
    /\ diagramId' = id
    /\ ops' = Append(ops, NewOp("updateDiagramId", [id |-> id], FALSE, "write",
                {[call |-> "updateDiagram", id |-> prevId,
                  attributes |-> [id |-> id]]},
                None, TRUE, TRUE, Some(diagramId), Some(id)))
    /\ UNCHANGED <<diagramName, databaseType, tables, relationships>>

updateDiagramNameOp(name, uh) ==
    LET prevName == rendered.diagramName IN
    /\ diagramName' = name
    /\ ops' = Append(ops, NewOp("updateDiagramName", [name |-> name], uh, "write",
                {[call |-> "updateDiagram", id |-> rendered.diagramId,
                  attributes |-> [name |-> name]]},
                Recorded(uh, Action("updateDiagramName", [name |-> name],
                                    [name |-> prevName])),
                TRUE, TRUE, Some(diagramName), Some(name)))
    /\ UNCHANGED <<diagramId, databaseType, tables, relationships>>

\* Mutant: addTable records its Action whatever options.updateHistory is.
addTableOpRecordingAlways(table, uh) ==
    /\ tables' = addTableUpdater(tables, table)
    /\ ops' = Append(ops, NewOp("addTable", [table |-> table], uh, "write",
                {[call |-> "addTable", diagramId |-> rendered.diagramId,
                  table |-> table]},
                Recorded(TRUE, Action("addTable", [table |-> table],
                                      [tableId |-> table.id])),
                TRUE, TRUE, tables, tables'))
    /\ UNCHANGED <<diagramId, diagramName, databaseType, relationships>>

addTableOp(table, uh) ==
    /\ tables' = addTableUpdater(tables, table)
    /\ ops' = Append(ops, NewOp("addTable", [table |-> table], uh, "write",
                {[call |-> "addTable", diagramId |-> rendered.diagramId,
                  table |-> table]},
                Recorded(uh, Action("addTable", [table |-> table],
                                    [tableId |-> table.id])),
                TRUE, TRUE, tables, tables'))
    /\ UNCHANGED <<diagramId, diagramName, databaseType, relationships>>

removeTableOp(id, uh) ==
    LET table == getTable(rendered.tables, id) IN
    /\ tables' = removeTableUpdater(tables, id)
    /\ ops' = Append(ops, NewOp("removeTable", [id |-> id], uh, "write",
                {[call |-> "deleteTable", diagramId |-> rendered.diagramId,
                  id |-> id]},
                Recorded(table # None /\ uh,
                         Action("removeTable", [tableId |-> id],
                                [table |-> table[1]])),
                table # None, id \in Ids(tables), tables, tables'))
    /\ UNCHANGED <<diagramId, diagramName, databaseType, relationships>>

\* Mutant: updateTable sets the tables computed from the render's tables
\* (setTables(tables.map(...)) instead of the functional update).
updateTableOpFromClosure(id, table, uh) ==
    LET prevTable == getTable(rendered.tables, id) IN
    /\ tables' = updateTableUpdater(rendered.tables, id, table)
    /\ ops' = Append(ops, NewOp("updateTable", [id |-> id, table |-> table],
                uh, "write",
                {[call |-> "updateTable", id |-> id, attributes |-> table]},
                Recorded(prevTable # None /\ uh,
                         Action("updateTable",
                                [tableId |-> id, table |-> table],
                                [tableId |-> id, table |-> prevTable[1]])),
                prevTable # None, id \in Ids(tables), tables, tables'))
    /\ UNCHANGED <<diagramId, diagramName, databaseType, relationships>>

updateTableOp(id, table, uh) ==
    LET prevTable == getTable(rendered.tables, id) IN
    /\ tables' = updateTableUpdater(tables, id, table)
    /\ ops' = Append(ops, NewOp("updateTable", [id |-> id, table |-> table],
                uh, "write",
                {[call |-> "updateTable", id |-> id, attributes |-> table]},
                Recorded(prevTable # None /\ uh,
                         Action("updateTable",
                                [tableId |-> id, table |-> table],
                                [tableId |-> id, table |-> prevTable[1]])),
                prevTable # None, id \in Ids(tables), tables, tables'))
    /\ UNCHANGED <<diagramId, diagramName, databaseType, relationships>>

updateTablesStateOp(fn, uh) ==
    LET prevTables == rendered.tables
        updatedTables == updateTables(fn, rendered.tables)
        tablesToDelete ==
            SelectSeq(rendered.tables, LAMBDA t : t.id \notin Ids(updatedTables))
    IN
    /\ tables' = updateTables(fn, tables)
    /\ ops' = Append(ops, NewOp("updateTablesState", [fn |-> fn], uh, "write",
                {[call |-> "updateTable", id |-> updatedTables[i].id,
                  attributes |-> updatedTables[i]] : i \in DOMAIN updatedTables}
                \cup
                {[call |-> "deleteTable", diagramId |-> rendered.diagramId,
                  id |-> tablesToDelete[i].id] : i \in DOMAIN tablesToDelete},
                Recorded(uh, Action("updateTablesState",
                                    [tables |-> updatedTables],
                                    [tables |-> prevTables])),
                TRUE, TRUE, tables, tables'))
    /\ UNCHANGED <<diagramId, diagramName, databaseType, relationships>>

updateFieldOp(tableId, fieldId, field, uh) ==
    LET prevField == getField(rendered.tables, tableId, fieldId) IN
    /\ tables' = updateFieldUpdater(tables, tableId, fieldId, field)
    /\ ops' = Append(ops, NewOp("updateField",
                [tableId |-> tableId, fieldId |-> fieldId, field |-> field],
                uh, "get", {},
                Recorded(prevField # None /\ uh,
                         Action("updateField",
                                [tableId |-> tableId, fieldId |-> fieldId,
                                 field |-> MergeField(prevField[1], field)],
                                [tableId |-> tableId, fieldId |-> fieldId,
                                 field |-> prevField[1]])),
                prevField # None,
                getField(tables, tableId, fieldId) # None, tables, tables'))
    /\ UNCHANGED <<diagramId, diagramName, databaseType, relationships>>

removeFieldOp(tableId, fieldId, uh) ==
    LET prevField == getField(rendered.tables, tableId, fieldId) IN
    /\ tables' = removeFieldUpdater(tables, tableId, fieldId)
    /\ ops' = Append(ops, NewOp("removeField",
                [tableId |-> tableId, fieldId |-> fieldId], uh, "get", {},
                Recorded(prevField # None /\ uh,
                         Action("removeField",
                                [tableId |-> tableId, fieldId |-> fieldId],
                                [tableId |-> tableId, field |-> prevField[1]])),
                prevField # None,
                getField(tables, tableId, fieldId) # None, tables, tables'))
    /\ UNCHANGED <<diagramId, diagramName, databaseType, relationships>>

addFieldOp(tableId, field, uh) ==
    /\ tables' = addFieldUpdater(tables, tableId, field)
    /\ ops' = Append(ops, NewOp("addField",
                [tableId |-> tableId, field |-> field], uh, "get", {},
                Recorded(uh, Action("addField",
                                    [tableId |-> tableId, field |-> field],
                                    [tableId |-> tableId, fieldId |-> field.id])),
                TRUE, TRUE, tables, tables'))
    /\ UNCHANGED <<diagramId, diagramName, databaseType, relationships>>

addIndexOp(tableId, index, uh) ==
    /\ tables' = addIndexUpdater(tables, tableId, index)
    /\ ops' = Append(ops, NewOp("addIndex",
                [tableId |-> tableId, index |-> index], uh, "get", {},
                Recorded(uh, Action("addIndex",
                                    [tableId |-> tableId, index |-> index],
                                    [tableId |-> tableId, indexId |-> index.id])),
                TRUE, TRUE, tables, tables'))
    /\ UNCHANGED <<diagramId, diagramName, databaseType, relationships>>

removeIndexOp(tableId, indexId, uh) ==
    LET prevIndex == getIndex(rendered.tables, tableId, indexId) IN
    /\ tables' = removeIndexUpdater(tables, tableId, indexId)
    /\ ops' = Append(ops, NewOp("removeIndex",
                [tableId |-> tableId, indexId |-> indexId], uh, "get", {},
                Recorded(prevIndex # None /\ uh,
                         Action("removeIndex",
                                [indexId |-> indexId, tableId |-> tableId],
                                [tableId |-> tableId, index |-> prevIndex[1]])),
                prevIndex # None,
                getIndex(tables, tableId, indexId) # None, tables, tables'))
    /\ UNCHANGED <<diagramId, diagramName, databaseType, relationships>>

updateIndexOp(tableId, indexId, index, uh) ==
    LET prevIndex == getIndex(rendered.tables, tableId, indexId) IN
    /\ tables' = updateIndexUpdater(tables, tableId, indexId, index)
    /\ ops' = Append(ops, NewOp("updateIndex",
                [tableId |-> tableId, indexId |-> indexId, index |-> index],
                uh, "get", {},
                Recorded(prevIndex # None /\ uh,
                         Action("updateIndex",
                                [tableId |-> tableId, indexId |-> indexId,
                                 index |-> index],
                                [tableId |-> tableId, indexId |-> indexId,
                                 index |-> prevIndex[1]])),
                prevIndex # None,
                getIndex(tables, tableId, indexId) # None, tables, tables'))
    /\ UNCHANGED <<diagramId, diagramName, databaseType, relationships>>

addRelationshipOp(relationship, uh) ==
    /\ relationships' = addRelationshipUpdater(relationships, relationship)
    /\ ops' = Append(ops, NewOp("addRelationship",
                [relationship |-> relationship], uh, "write",
                {[call |-> "addRelationship", diagramId |-> rendered.diagramId,
                  relationship |-> relationship]},
                Recorded(uh, Action("addRelationship",
                                    [relationship |-> relationship],
                                    [relationshipId |-> relationship.id])),
                TRUE, TRUE, relationships, relationships'))
    /\ UNCHANGED <<diagramId, diagramName, databaseType, tables>>

addRelationshipsOp(rels, uh) ==
    /\ relationships' = addRelationshipsUpdater(relationships, rels)
    /\ ops' = Append(ops, NewOp("addRelationships",
                [relationships |-> rels], uh, "write",
                {[call |-> "addRelationship", diagramId |-> rendered.diagramId,
                  relationship |-> rels[i]] : i \in DOMAIN rels},
                Recorded(uh, Action("addRelationships",
                                    [relationships |-> rels],
                                    [relationshipIds |-> IdSeq(rels)])),
                TRUE, TRUE, relationships, relationships'))
    /\ UNCHANGED <<diagramId, diagramName, databaseType, tables>>

removeRelationshipOp(id, uh) ==
    LET relationship == getRelationship(rendered.relationships, id) IN
    /\ relationships' = removeRelationshipUpdater(relationships, id)
    /\ ops' = Append(ops, NewOp("removeRelationship", [id |-> id], uh, "write",
                {[call |-> "deleteRelationship",
                  diagramId |-> rendered.diagramId, id |-> id]},
                Recorded(relationship # None /\ uh,
                         Action("removeRelationship",
                                [relationshipId |-> id],
                                [relationship |-> relationship[1]])),
                relationship # None, id \in Ids(relationships),
                relationships, relationships'))
    /\ UNCHANGED <<diagramId, diagramName, databaseType, tables>>

removeRelationshipsOp(ids, uh) ==
    LET prevRelationships ==
            SelectSeq(rendered.relationships, LAMBDA r : ~InSeq(r.id, ids))
    IN
    /\ relationships' = removeRelationshipsUpdater(relationships, ids)
    /\ ops' = Append(ops, NewOp("removeRelationships", [ids |-> ids], uh, "write",
                {[call |-> "deleteRelationship",
                  diagramId |-> rendered.diagramId, id |-> ids[i]]
                    : i \in DOMAIN ids},
                Recorded(uh, Action("removeRelationships",
                                    [relationshipsIds |-> ids],
                                    [relationships |-> prevRelationships])),
                \A i \in DOMAIN ids : ids[i] \in Ids(rendered.relationships),
                \A i \in DOMAIN ids : ids[i] \in Ids(relationships),
                relationships, relationships'))
    /\ UNCHANGED <<diagramId, diagramName, databaseType, tables>>

updateRelationshipOp(id, relationship, uh) ==
    LET prevRelationship == getRelationship(rendered.relationships, id) IN
    /\ relationships' = updateRelationshipUpdater(relationships, id, relationship)
    /\ ops' = Append(ops, NewOp("updateRelationship",
                [id |-> id, relationship |-> relationship], uh, "write",
                {[call |-> "updateRelationship", id |-> id,
                  attributes |-> relationship]},
                Recorded(prevRelationship # None /\ uh,
                         Action("updateRelationship",
                                [relationshipId |-> id,
                                 relationship |-> relationship],
                                [relationshipId |-> id,
                                 relationship |-> prevRelationship[1]])),
                prevRelationship # None, id \in Ids(relationships),
                relationships, relationships'))
    /\ UNCHANGED <<diagramId, diagramName, databaseType, tables>>

loadDiagramOp(id) ==
    /\ ops' = Append(ops, NewOp("loadDiagram", [diagramId |-> id], FALSE,
                "load", {}, None, TRUE, TRUE, None, None))
    /\ UNCHANGED store

\* ------------------------------------------- operations: after the awaits
RemoveAt(seq, i) == SubSeq(seq, 1, i - 1) \o SubSeq(seq, i + 1, Len(seq))

CallCount == IF lastCall = None THEN 0 ELSE lastCall[1].k

\* k numbers the settled calls; n, kind, found are those of the calling operation.
Settled(op, c, ok) ==
    Some([k |-> CallCount + 1, n |-> op.n, kind |-> op.kind,
          found |-> op.found, c |-> c, ok |-> ok])

\* What the caller's promise settles with.  changed, writes, aborted and
\* recorded are history fields: whether the operation changed the Store, how
\* many of its writes succeeded, whether it returned before writing, whether
\* it pushed an Action.
Completion(op, status, aborted) ==
    [n |-> op.n, kind |-> op.kind, a |-> op.a, uh |-> op.uh, status |-> status,
     found |-> op.found, inStore |-> op.inStore,
     changed |-> op.pre # op.post, writes |-> op.writes, aborted |-> aborted,
     recorded |-> status = "resolved" /\ ~aborted /\ op.act # None]

\* useRedoUndoStack
addUndoAction(stack, action) == Append(stack, action)

resetRedoStack(stack) == <<>>

\* Mutant: the Action is pushed and the redo stack is left as it is.
recordHistoryKeepingRedo(op, undo, redo) ==
    IF op.act # None
    THEN [undo |-> addUndoAction(undo, op.act[1]), redo |-> redo]
    ELSE [undo |-> undo, redo |-> redo]

\* if (<prior state found> && options.updateHistory) { addUndoAction(...);
\* resetRedoStack(); }   The result: the two stacks.
recordHistory(op, undo, redo) ==
    IF op.act # None
    THEN [undo |-> addUndoAction(undo, op.act[1]), redo |-> resetRedoStack(redo)]
    ELSE [undo |-> undo, redo |-> redo]

\* The operation ran to its end: history is recorded, the promise resolves.
Resolve(op) ==
    LET h == recordHistory(op, undoStack, redoStack) IN
    /\ undoStack' = h.undo
    /\ redoStack' = h.redo
    /\ ghost' = IF op.act # None
                THEN Some([act |-> op.act[1], h |-> Len(h.undo),
                           pre |-> op.pre, post |-> op.post])
                ELSE ghost
    /\ done' = Some(Completion(op, "resolved", FALSE))

\* Mutant: the rejection is caught and the promise resolves.
onRejectedSwallowed(op) == Completion(op, "resolved", FALSE)

\* A rejected await is not caught: the promise rejects, nothing else happens.
onRejected(op) == Completion(op, "rejected", FALSE)

\* A storage write of operation i succeeds.
SettleOk(i, c) ==
    LET op == ops[i]
        rest == op.calls \ {c}
        op2 == [op EXCEPT !.calls = rest, !.writes = @ + 1]
    IN
    /\ op.pc = "write"
    /\ c \in op.calls
    /\ db' = Exec(db, c)
    /\ lastCall' = Settled(op, c, TRUE)
    /\ IF rest = {}
       THEN /\ ops' = RemoveAt(ops, i)
            /\ IF op.status = "pending" THEN Resolve(op2)
               ELSE UNCHANGED <<done, undoStack, redoStack, ghost>>
       ELSE /\ ops' = [ops EXCEPT ![i] = op2]
            /\ UNCHANGED <<done, undoStack, redoStack, ghost>>
    /\ UNCHANGED <<store, rendered, n>>

\* Mutant: history is recorded also when the call rejects (as from a
\* finally block).
SettleRejectedRecording(i, c) ==
    LET op == ops[i]
        rest == op.calls \ {c}
        h == recordHistory(op, undoStack, redoStack)
    IN
    /\ op.pc = "write"
    /\ c \in op.calls
    /\ lastCall' = Settled(op, c, FALSE)
    /\ done' = IF op.status = "pending" THEN Some(onRejected(op)) ELSE done
    /\ ops' = IF rest = {} THEN RemoveAt(ops, i)
              ELSE [ops EXCEPT ![i] = [op EXCEPT !.calls = rest,
                                                 !.status = "rejected"]]
    /\ undoStack' = h.undo
    /\ redoStack' = h.redo
    /\ UNCHANGED <<store, rendered, db, n, ghost>>

\* A storage write of operation i rejects.  Promise.all rejects with the
\* first rejection; the sibling calls stay in flight.
SettleRejected(i, c) ==
    LET op == ops[i]
        rest == op.calls \ {c}
    IN
    /\ op.pc = "write"
    /\ c \in op.calls
    /\ lastCall' = Settled(op, c, FALSE)
    /\ done' = IF op.status = "pending" THEN Some(onRejected(op)) ELSE done
    /\ ops' = IF rest = {} THEN RemoveAt(ops, i)
              ELSE [ops EXCEPT ![i] = [op EXCEPT !.calls = rest,
                                                 !.status = "rejected"]]
    /\ UNCHANGED <<store, rendered, db, undoStack, redoStack, n, ghost>>

\* Promise.all of no calls (an empty list of tables or relationships).
SettleEmpty(i) ==
    LET op == ops[i] IN
    /\ op.pc = "write"
    /\ op.calls = {}
    /\ op.status = "pending"
    /\ ops' = RemoveAt(ops, i)
    /\ Resolve(op)
    /\ UNCHANGED <<store, rendered, db, n, lastCall>>

\* Mutant: only the changed element is written, not the whole sequence.
writeAttributesPartial(op, table) ==
    CASE op.kind = "addField" -> MergeTable(table, [fields |-> <<op.a.field>>])
      [] op.kind = "updateField" ->
            MergeTable(table, [fields |->
                updateFieldList(
                    SelectSeq(table.fields, LAMBDA f : f.id = op.a.fieldId),
                    op.a.fieldId, op.a.field)])
      [] op.kind = "removeField" -> MergeTable(table, [fields |-> <<>>])
      [] op.kind = "addIndex" -> MergeTable(table, [indexes |-> <<op.a.index>>])
      [] op.kind = "updateIndex" ->
            MergeTable(table, [indexes |->
                updateIndexList(
                    SelectSeq(table.indexes, LAMBDA x : x.id = op.a.indexId),
                    op.a.indexId, op.a.index)])
      [] op.kind = "removeIndex" -> MergeTable(table, [indexes |-> <<>>])

\* Mutant: removeField writes the table back as it was read.
writeAttributesUnfiltered(op, table) ==
    CASE op.kind = "addField" ->
            MergeTable(table, [fields |-> Append(table.fields, op.a.field)])
      [] op.kind = "updateField" ->
            MergeTable(table, [fields |->
                updateFieldList(table.fields, op.a.fieldId, op.a.field)])
      [] op.kind = "removeField" -> table
      [] op.kind = "addIndex" ->
            MergeTable(table, [indexes |-> Append(table.indexes, op.a.index)])
      [] op.kind = "updateIndex" ->
            MergeTable(table, [indexes |->
                updateIndexList(table.indexes, op.a.indexId, op.a.index)])
      [] op.kind = "removeIndex" ->
            MergeTable(table, [indexes |->
                removeIndexList(table.indexes, op.a.indexId)])

\* The attributes a field or index operation writes: the table read from
\* storage with its whole field / index sequence recomputed.
writeAttributes(op, table) ==
    CASE op.kind = "addField" ->
            MergeTable(table, [fields |-> Append(table.fields, op.a.field)])
      [] op.kind = "updateField" ->
            MergeTable(table, [fields |->
                updateFieldList(table.fields, op.a.fieldId, op.a.field)])
      [] op.kind = "removeField" ->
            MergeTable(table, [fields |->
                removeFieldList(table.fields, op.a.fieldId)])
      [] op.kind = "addIndex" ->
            MergeTable(table, [indexes |-> Append(table.indexes, op.a.index)])
      [] op.kind = "updateIndex" ->
            MergeTable(table, [indexes |->
                updateIndexList(table.indexes, op.a.indexId, op.a.index)])
      [] op.kind = "removeIndex" ->
            MergeTable(table, [indexes |->
                removeIndexList(table.indexes, op.a.indexId)])

\* Mutant: the operation also returns when its own lookup found nothing.
returnsEarlyUnlessFound(op, table) == table = None \/ ~op.found

\* if (!table) { return; }
returnsEarly(op, table) == table = None

\* db.getTable of a field or index operation settles; the operation returns
\* or issues its db.updateTable.
GetTableStep(i) ==
    LET op == ops[i]
        table == DbGetTable(db, op.did, op.a.tableId)
        c == [call |-> "getTable", diagramId |-> op.did, id |-> op.a.tableId]
    IN
    /\ op.pc = "get"
    /\ lastCall' = Settled(op, c, TRUE)
    /\ IF returnsEarly(op, table)
       THEN /\ ops' = RemoveAt(ops, i)
            /\ done' = Some(Completion(op, "resolved", TRUE))
       ELSE /\ ops' = [ops EXCEPT ![i] =
                [op EXCEPT !.pc = "write",
                           !.calls = {[call |-> "updateTable",
                                       id |-> op.a.tableId,
                                       attributes |-> writeAttributes(op, table[1])]}]]
            /\ UNCHANGED done
    /\ UNCHANGED <<store, rendered, db, undoStack, redoStack, n, ghost>>

\* The order in which storage returns rows.
TableOrder == <<"t1", "t2">>
RelationshipOrder == <<"r1", "r2", "r3">>

RowsOf(rows, did, order) ==
    LET mine == {r.row : r \in {q \in rows : q.diagramId = did}}
        present == SelectSeq(order, LAMBDA id : \E r \in mine : r.id = id)
    IN  [i \in DOMAIN present |-> CHOOSE r \in mine : r.id = present[i]]

\* Mutant: the load replaces the diagram's id, name and type and the
\* relationships, and leaves the tables as they are.
LoadStepKeepingTables(i) ==
    LET op == ops[i]
        diagram == DbGetDiagram(db, op.a.diagramId)
    IN
    /\ op.pc = "load"
    /\ ops' = RemoveAt(ops, i)
    /\ done' = Some(Completion(op, "resolved", FALSE))
    /\ IF diagram # None
       THEN /\ diagramId' = diagram[1].id
            /\ diagramName' = diagram[1].name
            /\ databaseType' = diagram[1].databaseType
            /\ tables' = tables
            /\ relationships' =
                  RowsOf(db.relationships, diagram[1].id, RelationshipOrder)
       ELSE UNCHANGED store
    /\ UNCHANGED <<rendered, db, undoStack, redoStack, n, lastCall, ghost>>

\* db.getDiagram settles: if (diagram) { setDiagramId(...); ... }
LoadStep(i) ==
    LET op == ops[i]
        diagram == DbGetDiagram(db, op.a.diagramId)
    IN
    /\ op.pc = "load"
    /\ ops' = RemoveAt(ops, i)
    /\ done' = Some(Completion(op, "resolved", FALSE))
    /\ IF diagram # None
       THEN /\ diagramId' = diagram[1].id
            /\ diagramName' = diagram[1].name
            /\ databaseType' = diagram[1].databaseType
            /\ tables' = RowsOf(db.tables, diagram[1].id, TableOrder)
            /\ relationships' =
                  RowsOf(db.relationships, diagram[1].id, RelationshipOrder)
       ELSE UNCHANGED store
    /\ UNCHANGED <<rendered, db, undoStack, redoStack, n, lastCall, ghost>>

\* db.getDiagram rejects: the await is not caught, the promise rejects.
LoadRejected(i) ==
    LET op == ops[i] IN
    /\ op.pc = "load"
    /\ ops' = RemoveAt(ops, i)
    /\ done' = Some(onRejected(op))
    /\ UNCHANGED <<store, rendered, db, undoStack, redoStack, n, lastCall, ghost>>

\* ------------------------------------------------------------- the actions
\* A caller invokes an operation: the part of the callback before its first
\* await runs (the reads of the render's values, the set-state call, the
\* storage call being issued).
Invoke(body) ==
    /\ n.ops < MaxOps
    /\ body
    /\ n' = [n EXCEPT !.ops = @ + 1]
    /\ UNCHANGED <<rendered, db, undoStack, redoStack, done, lastCall, ghost>>

updateDatabaseType(type) == Invoke(updateDatabaseTypeOp(type))
updateDiagramId(id) == Invoke(updateDiagramIdOp(id))
updateDiagramName(name, uh) == Invoke(updateDiagramNameOp(name, uh))
addTable(table, uh) == Invoke(addTableOp(table, uh))
removeTable(id, uh) == Invoke(removeTableOp(id, uh))
updateTable(id, table, uh) == Invoke(updateTableOp(id, table, uh))
updateTablesState(fn, uh) == Invoke(updateTablesStateOp(fn, uh))
updateField(tableId, fieldId, field, uh) ==
    Invoke(updateFieldOp(tableId, fieldId, field, uh))
removeField(tableId, fieldId, uh) == Invoke(removeFieldOp(tableId, fieldId, uh))
addField(tableId, field, uh) == Invoke(addFieldOp(tableId, field, uh))
addIndex(tableId, index, uh) == Invoke(addIndexOp(tableId, index, uh))
removeIndex(tableId, indexId, uh) == Invoke(removeIndexOp(tableId, indexId, uh))
updateIndex(tableId, indexId, index, uh) ==
    Invoke(updateIndexOp(tableId, indexId, index, uh))
addRelationship(relationship, uh) == Invoke(addRelationshipOp(relationship, uh))
addRelationships(rels, uh) == Invoke(addRelationshipsOp(rels, uh))
removeRelationship(id, uh) == Invoke(removeRelationshipOp(id, uh))
removeRelationships(ids, uh) == Invoke(removeRelationshipsOp(ids, uh))
updateRelationship(id, relationship, uh) ==
    Invoke(updateRelationshipOp(id, relationship, uh))

loadDiagram(id) ==
    /\ loadDiagramOp(id)
    /\ n' = [n EXCEPT !.loads = @ + 1]
    /\ UNCHANGED <<rendered, db, undoStack, redoStack, done, lastCall, ghost>>

\* createTable: a new table with generated ids, added with the default
\* options.  generateId yields an id no entity has.
TableName(k) == CASE k = 0 -> "table_1" [] k = 1 -> "table_2" [] OTHER -> "table_3"

createTableOp(id, fieldId) ==
    addTableOp([id |-> id, name |-> TableName(Len(rendered.tables)), x |-> 0,
                fields |-> <<[id |-> fieldId, name |-> "id", type |-> "bigint"]>>,
                indexes |-> <<>>], TRUE)

FreshTableIds ==
    TableIds \ (Ids(tables) \cup Ids(rendered.tables)
                \cup {r.row.id : r \in db.tables})

createTable(id, fieldId) ==
    /\ id \in FreshTableIds
    /\ Invoke(createTableOp(id, fieldId))

\* ---------------------------------------------- the history controller
\* Undo pops the Action on top of the undo stack, pushes it on the redo stack
\* and applies its undoData through the inverse operation with
\* updateHistory = false; redo does the converse with redoData.
Apply(kind, d) ==
    \/ kind = "updateDiagramName" /\ updateDiagramNameOp(d.name, FALSE)
    \/ kind = "addTable" /\ addTableOp(d.table, FALSE)
    \/ kind = "removeTable" /\ removeTableOp(d.tableId, FALSE)
    \/ kind = "updateTable" /\ updateTableOp(d.tableId, d.table, FALSE)
    \/ kind = "updateTablesState"
         /\ updateTablesStateOp([kind |-> "const", tables |-> d.tables], FALSE)
    \/ kind = "addField" /\ addFieldOp(d.tableId, d.field, FALSE)
    \/ kind = "removeField" /\ removeFieldOp(d.tableId, d.fieldId, FALSE)
    \/ kind = "updateField"
         /\ updateFieldOp(d.tableId, d.fieldId, d.field, FALSE)
    \/ kind = "addIndex" /\ addIndexOp(d.tableId, d.index, FALSE)
    \/ kind = "removeIndex" /\ removeIndexOp(d.tableId, d.indexId, FALSE)
    \/ kind = "updateIndex"
         /\ updateIndexOp(d.tableId, d.indexId, d.index, FALSE)
    \/ kind = "addRelationship" /\ addRelationshipOp(d.relationship, FALSE)
    \/ kind = "addRelationships" /\ addRelationshipsOp(d.relationships, FALSE)
    \/ kind = "removeRelationship"
         /\ removeRelationshipOp(d.relationshipId, FALSE)
    \/ kind = "removeRelationships"
         /\ removeRelationshipsOp(
               IF "relationshipsIds" \in DOMAIN d THEN d.relationshipsIds
               ELSE d.relationshipIds, FALSE)
    \/ kind = "updateRelationship"
         /\ updateRelationshipOp(d.relationshipId, d.relationship, FALSE)

Inverse(kind) ==
    CASE kind = "addTable" -> "removeTable"
      [] kind = "removeTable" -> "addTable"
      [] kind = "addField" -> "removeField"
      [] kind = "removeField" -> "addField"
      [] kind = "addIndex" -> "removeIndex"
      [] kind = "removeIndex" -> "addIndex"
      [] kind = "addRelationship" -> "removeRelationship"
      [] kind = "removeRelationship" -> "addRelationship"
      [] kind = "addRelationships" -> "removeRelationships"
      [] kind = "removeRelationships" -> "addRelationships"
      [] OTHER -> kind

UndoOp ==
    LET action == undoStack[Len(undoStack)] IN
    /\ undoStack # <<>>
    /\ undoStack' = SubSeq(undoStack, 1, Len(undoStack) - 1)
    /\ redoStack' = Append(redoStack, action)
    /\ Apply(Inverse(action.action), action.undoData)

RedoOp ==
    LET action == redoStack[Len(redoStack)] IN
    /\ redoStack # <<>>
    /\ redoStack' = SubSeq(redoStack, 1, Len(redoStack) - 1)
    /\ undoStack' = Append(undoStack, action)
    /\ Apply(action.action, action.redoData)

Undo ==
    /\ n.undo < MaxUndo
    /\ UndoOp
    /\ n' = [n EXCEPT !.undo = @ + 1]
    /\ UNCHANGED <<rendered, db, done, lastCall, ghost>>

Redo ==
    /\ n.undo < MaxUndo
    /\ RedoOp
    /\ n' = [n EXCEPT !.undo = @ + 1]
    /\ UNCHANGED <<rendered, db, done, lastCall, ghost>>

Next ==
    \/ Render
    \/ \E type \in DatabaseTypes : updateDatabaseType(type)
    \/ \E id \in NewDiagramIds : updateDiagramId(id)
    \/ \E name \in DiagramNames, uh \in BOOLEAN : updateDiagramName(name, uh)
    \/ \E id \in TableIds, fieldId \in {"f1"} : createTable(id, fieldId)
    \/ \E table \in NewTables, uh \in BOOLEAN : addTable(table, uh)
    \/ \E id \in TableIds, uh \in BOOLEAN : removeTable(id, uh)
    \/ \E id \in TableIds, p \in TablePatches, uh \in BOOLEAN :
          updateTable(id, p, uh)
    \/ \E fn \in UpdateFns, uh \in BOOLEAN : updateTablesState(fn, uh)
    \/ \E tid \in TableIds, f \in NewFields, uh \in BOOLEAN : addField(tid, f, uh)
    \/ \E tid \in TableIds, fid \in FieldIds, p \in FieldPatches, uh \in BOOLEAN :
          updateField(tid, fid, p, uh)
    \/ \E tid \in TableIds, fid \in FieldIds, uh \in BOOLEAN :
          removeField(tid, fid, uh)
    \/ \E tid \in TableIds, x \in NewIndexes, uh \in BOOLEAN : addIndex(tid, x, uh)
    \/ \E tid \in TableIds, xid \in IndexIds, p \in IndexPatches, uh \in BOOLEAN :
          updateIndex(tid, xid, p, uh)
    \/ \E tid \in TableIds, xid \in IndexIds, uh \in BOOLEAN :
          removeIndex(tid, xid, uh)
    \/ \E r \in NewRelationships, uh \in BOOLEAN : addRelationship(r, uh)
    \/ \E rs \in NewRelationshipLists, uh \in BOOLEAN : addRelationships(rs, uh)
    \/ \E id \in RelationshipIds, uh \in BOOLEAN : removeRelationship(id, uh)
    \/ \E ids \in RelationshipIdLists, uh \in BOOLEAN :
          removeRelationships(ids, uh)
    \/ \E id \in RelationshipIds, p \in RelationshipPatches, uh \in BOOLEAN :
          updateRelationship(id, p, uh)
    \/ Undo
    \/ \E i \in DOMAIN ops : GetTableStep(i)
    \/ \E i \in DOMAIN ops : SettleEmpty(i)
    \/ \E i \in DOMAIN ops : \E c \in ops[i].calls : SettleOk(i, c)
    \/ \E i \in DOMAIN ops : \E c \in ops[i].calls : SettleRejected(i, c)

Spec == Init /\ [][Next]_vars

\* No storage call rejects.
NextNoReject ==
    \/ Render
    \/ \E type \in DatabaseTypes : updateDatabaseType(type)
    \/ \E id \in NewDiagramIds : updateDiagramId(id)
    \/ \E name \in DiagramNames, uh \in BOOLEAN : updateDiagramName(name, uh)
    \/ \E id \in TableIds, fieldId \in {"f1"} : createTable(id, fieldId)
    \/ \E table \in NewTables, uh \in BOOLEAN : addTable(table, uh)
    \/ \E id \in TableIds, uh \in BOOLEAN : removeTable(id, uh)
    \/ \E id \in TableIds, p \in TablePatches, uh \in BOOLEAN :
          updateTable(id, p, uh)
    \/ \E fn \in UpdateFns, uh \in BOOLEAN : updateTablesState(fn, uh)
    \/ \E tid \in TableIds, f \in NewFields, uh \in BOOLEAN : addField(tid, f, uh)
    \/ \E tid \in TableIds, fid \in FieldIds, p \in FieldPatches, uh \in BOOLEAN :
          updateField(tid, fid, p, uh)
    \/ \E tid \in TableIds, fid \in FieldIds, uh \in BOOLEAN :
          removeField(tid, fid, uh)
    \/ \E tid \in TableIds, x \in NewIndexes, uh \in BOOLEAN : addIndex(tid, x, uh)
    \/ \E tid \in TableIds, xid \in IndexIds, p \in IndexPatches, uh \in BOOLEAN :
          updateIndex(tid, xid, p, uh)
    \/ \E tid \in TableIds, xid \in IndexIds, uh \in BOOLEAN :
          removeIndex(tid, xid, uh)
    \/ \E r \in NewRelationships, uh \in BOOLEAN : addRelationship(r, uh)
    \/ \E rs \in NewRelationshipLists, uh \in BOOLEAN : addRelationships(rs, uh)
    \/ \E id \in RelationshipIds, uh \in BOOLEAN : removeRelationship(id, uh)
    \/ \E ids \in RelationshipIdLists, uh \in BOOLEAN :
          removeRelationships(ids, uh)
    \/ \E id \in RelationshipIds, p \in RelationshipPatches, uh \in BOOLEAN :
          updateRelationship(id, p, uh)
    \/ Undo
    \/ \E i \in DOMAIN ops : GetTableStep(i)
    \/ \E i \in DOMAIN ops : SettleEmpty(i)
    \/ \E i \in DOMAIN ops : \E c \in ops[i].calls : SettleOk(i, c)

SpecNoReject == Init /\ [][NextNoReject]_vars

\* ------------------------------------------------------------ the scenario
\* A caller that awaits every step: createTable, addField(email),
\* removeField(id), then the history controller's undo and redo.  No storage
\* call rejects.  Renders may or may not come between the steps.
EmailFields == {[id |-> "f2", name |-> "email", type |-> "text"],
                [id |-> "f3", name |-> "email", type |-> "varchar"]}

Created == undoStack[1].redoData.table

ScCreateTable(id, fieldId) ==
    /\ n.ops = 0
    /\ ops = <<>>
    /\ id \in FreshTableIds
    /\ createTableOp(id, fieldId)
    /\ n' = [n EXCEPT !.ops = @ + 1]
    /\ UNCHANGED <<rendered, db, undoStack, redoStack, done, lastCall, ghost>>

ScAddField(field) ==
    /\ n.ops = 1
    /\ ops = <<>>
    /\ field.id # Created.fields[1].id
    /\ addFieldOp(Created.id, field, TRUE)
    /\ n' = [n EXCEPT !.ops = @ + 1]
    /\ UNCHANGED <<rendered, db, undoStack, redoStack, done, lastCall, ghost>>

ScRemoveField ==
    /\ n.ops = 2
    /\ ops = <<>>
    /\ removeFieldOp(Created.id, Created.fields[1].id, TRUE)
    /\ n' = [n EXCEPT !.ops = @ + 1]
    /\ UNCHANGED <<rendered, db, undoStack, redoStack, done, lastCall, ghost>>

ScUndo ==
    /\ n.ops = 3
    /\ n.undo = 0
    /\ ops = <<>>
    /\ undoStack[Len(undoStack)].action = "removeField"
    /\ UndoOp
    /\ n' = [n EXCEPT !.undo = @ + 1]
    /\ UNCHANGED <<rendered, db, done, lastCall, ghost>>

ScRedo ==
    /\ n.undo = 1
    /\ ops = <<>>
    /\ RedoOp
    /\ n' = [n EXCEPT !.undo = @ + 1]
    /\ UNCHANGED <<rendered, db, done, lastCall, ghost>>

NextScenario ==
    \/ Render
    \/ \E id \in TableIds, fieldId \in {"f1", "f2"} : ScCreateTable(id, fieldId)
    \/ \E f \in EmailFields : ScAddField(f)
    \/ ScRemoveField
    \/ ScUndo
    \/ ScRedo
    \/ \E i \in DOMAIN ops : GetTableStep(i)
    \/ \E i \in DOMAIN ops : \E c \in ops[i].calls : SettleOk(i, c)

SpecScenario == Init /\ [][NextScenario]_vars

\* ================================================================== claims
Cells == [diagramId |-> diagramId, diagramName |-> diagramName,
          tables |-> tables, relationships |-> relationships]

\* The operation invoked by this step, if it is an invocation.
Invoked == n' # n /\ Len(ops') = Len(ops) + 1
NewestOp == ops'[Len(ops')]

HasAll(e, p) == \A k \in DOMAIN p : e[k] = p[k]

\* What a reader of the Store must find after operation op was invoked on
\* the Store (ts, rs: the tables and relationships before; the primed
\* variables: after).
Reflects(op) ==
    LET a == op.a IN
    CASE op.kind = "updateDatabaseType" -> databaseType' = a.databaseType
      [] op.kind = "updateDiagramId" -> diagramId' = a.id
      [] op.kind = "updateDiagramName" -> diagramName' = a.name
      [] op.kind = "addTable" ->
            /\ Len(tables') = Len(tables) + 1
            /\ tables'[Len(tables')] = a.table
      [] op.kind = "removeTable" -> a.id \notin Ids(tables')
      [] op.kind = "updateTable" ->
            /\ Len(tables') = Len(tables)
            /\ \A i \in DOMAIN tables :
                  tables[i].id = a.id => HasAll(tables'[i], a.table)
      [] op.kind = "updateTablesState" ->
            LET wanted == updateFn(a.fn, tables) IN
            /\ Ids(tables') = Ids(tables) \cap Ids(wanted)
            /\ \A i \in DOMAIN tables' : \A j \in DOMAIN wanted :
                  wanted[j].id = tables'[i].id => HasAll(tables'[i], wanted[j])
      [] op.kind = "addField" ->
            \A i \in DOMAIN tables : tables[i].id = a.tableId =>
                /\ Len(tables'[i].fields) = Len(tables[i].fields) + 1
                /\ tables'[i].fields[Len(tables'[i].fields)] = a.field
      [] op.kind = "updateField" ->
            \A i \in DOMAIN tables : tables[i].id = a.tableId =>
                \A j \in DOMAIN tables[i].fields :
                    tables[i].fields[j].id = a.fieldId =>
                        HasAll(tables'[i].fields[j], a.field)
      [] op.kind = "removeField" ->
            \A i \in DOMAIN tables' : tables'[i].id = a.tableId =>
                a.fieldId \notin Ids(tables'[i].fields)
      [] op.kind = "addIndex" ->
            \A i \in DOMAIN tables : tables[i].id = a.tableId =>
                /\ Len(tables'[i].indexes) = Len(tables[i].indexes) + 1
                /\ tables'[i].indexes[Len(tables'[i].indexes)] = a.index
      [] op.kind = "updateIndex" ->
            \A i \in DOMAIN tables : tables[i].id = a.tableId =>
                \A j \in DOMAIN tables[i].indexes :
                    tables[i].indexes[j].id = a.indexId =>
                        HasAll(tables'[i].indexes[j], a.index)
      [] op.kind = "removeIndex" ->
            \A i \in DOMAIN tables' : tables'[i].id = a.tableId =>
                a.indexId \notin Ids(tables'[i].indexes)
      [] op.kind = "addRelationship" ->
            /\ Len(relationships') = Len(relationships) + 1
            /\ relationships'[Len(relationships')] = a.relationship
      [] op.kind = "addRelationships" ->
            /\ Len(relationships') = Len(relationships) + Len(a.relationships)
            /\ \A j \in DOMAIN a.relationships :
                  relationships'[Len(relationships) + j] = a.relationships[j]
      [] op.kind = "removeRelationship" -> a.id \notin Ids(relationships')
      [] op.kind = "removeRelationships" ->
            \A j \in DOMAIN a.ids : a.ids[j] \notin Ids(relationships')
      [] op.kind = "updateRelationship" ->
            /\ Len(relationships') = Len(relationships)
            /\ \A i \in DOMAIN relationships :
                  relationships[i].id = a.id =>
                      HasAll(relationships'[i], a.relationship)

TopIsLast ==
    /\ ghost # None
    /\ Len(undoStack) = ghost[1].h
    /\ undoStack[Len(undoStack)] = ghost[1].act

\* The entity an update Action is about, in a Store component.
EntityOf(action, component) ==
    LET d == action.undoData IN
    CASE action.action = "updateTable" -> getTable(component, d.tableId)
      [] action.action = "updateField" -> getField(component, d.tableId, d.fieldId)
      [] action.action = "updateIndex" -> getIndex(component, d.tableId, d.indexId)
      [] action.action = "updateRelationship" ->
            getRelationship(component, d.relationshipId)
      [] action.action = "updateDiagramName" -> component

\* The Store component after data (undoData or redoData) of an update Action
\* is re-applied through the same operation with updateHistory = false.
Reapply(action, d, component) ==
    CASE action.action = "updateTable" ->
            updateTableUpdater(component, d.tableId, d.table)
      [] action.action = "updateField" ->
            updateFieldUpdater(component, d.tableId, d.fieldId, d.field)
      [] action.action = "updateIndex" ->
            updateIndexUpdater(component, d.tableId, d.indexId, d.index)
      [] action.action = "updateRelationship" ->
            updateRelationshipUpdater(component, d.relationshipId, d.relationship)
      [] action.action = "updateDiagramName" -> Some(d.name)

UpdateActions == {"updateTable", "updateField", "updateIndex",
                  "updateRelationship", "updateDiagramName"}

ComponentOf(action) ==
    IF action.action = "updateDiagramName" THEN Some(diagramName)
    ELSE IF action.action = "updateRelationship" THEN relationships
    ELSE tables

\* C2: for the update Action pushed last, on an entity the Store held when
\* the operation was invoked and still holds: re-applying undoData through
\* the same operation gives the entity its state from immediately before the
\* operation's in-memory mutation, and re-applying redoData after that gives
\* it its state from immediately after the mutation.
C2_UpdateInvertible ==
    (/\ TopIsLast
     /\ ghost[1].act.action \in UpdateActions
     /\ EntityOf(ghost[1].act, ghost[1].pre) # None
     /\ EntityOf(ghost[1].act, ComponentOf(ghost[1].act)) # None)
    => LET action == ghost[1].act
           undone == Reapply(action, action.undoData, ComponentOf(action))
           redone == Reapply(action, action.redoData, undone)
       IN  /\ EntityOf(action, undone) = EntityOf(action, ghost[1].pre)
           /\ EntityOf(action, redone) = EntityOf(action, ghost[1].post)

\* The Store component after the undoData of a remove Action is re-applied
\* through the inverse add operation with updateHistory = false.
Readd(action, component) ==
    LET d == action.undoData IN
    CASE action.action = "removeTable" -> addTableUpdater(component, d.table)
      [] action.action = "removeField" ->
            addFieldUpdater(component, d.tableId, d.field)
      [] action.action = "removeIndex" ->
            addIndexUpdater(component, d.tableId, d.index)
      [] action.action = "removeRelationship" ->
            addRelationshipUpdater(component, d.relationship)

RemoveActions == {"removeTable", "removeField", "removeIndex",
                  "removeRelationship"}

RemovedComponent(action) ==
    IF action.action = "removeRelationship" THEN relationships ELSE tables

\* C3: for the remove Action pushed last, with the Store component still as
\* the removal left it: re-adding undoData through the inverse add operation
\* gives exactly the component as it was before the removal, the position of
\* the removed entity included.
C3_RemoveInvertible ==
    (/\ TopIsLast
     /\ ghost[1].act.action \in RemoveActions
     /\ RemovedComponent(ghost[1].act) = ghost[1].post)
    => Readd(ghost[1].act, RemovedComponent(ghost[1].act)) = ghost[1].pre

\* C4: at the end of the scenario (createTable, addField(email),
\* removeField(id), undo, redo, each awaited) the tables of the Store are
\* those right after the removeField's mutation, and storage holds the
\* created table as the Store does.
ScenarioDone == n.ops = 3 /\ n.undo = 2 /\ ops = <<>>

C4_ScenarioRoundTrip ==
    ScenarioDone =>
        /\ tables = ghost[1].post
        /\ \E did \in {"", "d1"} :
              DbGetTable(db, did, Created.id) = getTable(ghost[1].post, Created.id)
        /\ getTable(tables, Created.id) # None

C4_Witness ==
    /\ ScenarioDone
    /\ ghost[1].act.action = "removeField"
    /\ Len(getTable(tables, Created.id)[1].fields) = 1
    /\ getTable(tables, Created.id)[1].fields[1].name = "email"

\* C5: a step that pushes an Action leaves the redo stack empty.
C5_PushClearsRedo ==
    [][(Len(undoStack') > Len(undoStack)) => redoStack' = <<>>]_vars

\* An Action was undone, and a later recorded mutation emptied the redo stack.
C5_Witness ==
    /\ n.undo = 1
    /\ redoStack = <<>>
    /\ TopIsLast

\* This step settles a storage call.
CallSettles == lastCall' # None /\ lastCall'[1].k = CallCount + 1

OpNumbered(seq, m) == SelectSeq(seq, LAMBDA o : o.n = m)

\* C6: in a step in which a storage write rejects, the Store is left as it
\* is (the operation's mutation stays, nothing is rolled back) and the
\* operation's promise is rejected (by this step, or already by an earlier
\* rejection of the same operation); and a promise only ever resolves for an
\* operation none of whose calls rejected.
C6_RejectionPropagates ==
    [][/\ (CallSettles /\ ~lastCall'[1].ok) =>
            /\ store' = store
            /\ \/ /\ done' # None
                  /\ done'[1].n = lastCall'[1].n
                  /\ done'[1].status = "rejected"
               \/ \E i \in DOMAIN ops :
                     ops[i].n = lastCall'[1].n /\ ops[i].status = "rejected"
       /\ (done' # done /\ done'[1].status = "resolved") =>
            \A i \in DOMAIN ops :
                ops[i].n = done'[1].n => ops[i].status = "pending"]_vars

C6_Witness ==
    /\ done # None
    /\ done[1].kind = "updateField"
    /\ done[1].status = "rejected"
    /\ lastCall[1].n = done[1].n
    /\ lastCall[1].c.call = "updateTable"
    /\ ~lastCall[1].ok
    /\ getField(tables, "t1", "f1") = Some(MergeField(F1, [type |-> "int"]))
    /\ DbGetTable(db, "d1", "t1") = Some(T1)

\* C7: a mutation operation whose promise resolved and which changed the
\* Store has had at least one of its writes accepted by storage.
C7_ResolvedMeansWritten ==
    (/\ done # None
     /\ done[1].status = "resolved"
     /\ done[1].changed)
    => done[1].writes >= 1

FieldIndexKinds == {"addField", "updateField", "removeField",
                    "addIndex", "updateIndex", "removeIndex"}

\* C8: with no call rejected and every operation completed, the table that
\* a field or index operation changed in the Store and wrote last has in
\* storage the field and index sequences it has in the Store.
C8_NoLostUpdate ==
    (/\ ops = <<>>
     /\ done # None
     /\ done[1].kind \in FieldIndexKinds
     /\ done[1].changed
     /\ ~done[1].aborted)
    => LET inStore == getTable(tables, done[1].a.tableId)
           stored == DbGetTable(db, diagramId, done[1].a.tableId)
       IN  (inStore # None /\ stored # None) =>
              /\ stored[1].fields = inStore[1].fields
              /\ stored[1].indexes = inStore[1].indexes

UpdateRemoveKinds == {"updateTable", "removeTable", "updateField", "removeField",
                      "updateIndex", "removeIndex", "updateRelationship",
                      "removeRelationship", "removeRelationships"}

\* C9: an update or remove operation that pushed an Action was invoked with
\* ids of entities the Store held.
C9_NoPhantomHistory ==
    (/\ done # None
     /\ done[1].recorded
     /\ done[1].kind \in UpdateRemoveKinds)
    => done[1].inStore

LookupKinds == {"updateField", "removeField", "updateIndex", "removeIndex"}

MultiCallKinds == {"addRelationships", "removeRelationships", "updateTablesState"}

\* C11: once the promise of an operation that issues several storage calls
\* has settled, resolved or rejected, none of that operation's calls is
\* still in flight.
C11_CompletionAfterAllCalls ==
    (done # None /\ done[1].kind \in MultiCallKinds)
    => OpNumbered(ops, done[1].n) = <<>>

\* C12: the Store's tables have pairwise different ids and so have its
\* relationships.
C12_UniqueIds ==
    /\ Cardinality(Ids(tables)) = Len(tables)
    /\ Cardinality(Ids(relationships)) = Len(relationships)

\* The sequence `written` is the sequence `read` with the one change of the
\* operation applied: an element appended, the element with the given id
\* merged with the patch, or the element with the given id left out.
ChangeApplied(kind, a, read, written) ==
    CASE kind \in {"addField", "addIndex"} ->
            /\ Len(written) = Len(read) + 1
            /\ \A k \in DOMAIN read : written[k] = read[k]
            /\ written[Len(written)] =
                  (IF kind = "addField" THEN a.field ELSE a.index)
      [] kind \in {"updateField", "updateIndex"} ->
            /\ Len(written) = Len(read)
            /\ \A k \in DOMAIN read :
                  LET id == IF kind = "updateField" THEN a.fieldId ELSE a.indexId
                      p == IF kind = "updateField" THEN a.field ELSE a.index
                  IN  IF read[k].id = id
                      THEN /\ \A key \in DOMAIN p : written[k][key] = p[key]
                           /\ \A key \in DOMAIN read[k] \ DOMAIN p :
                                 written[k][key] = read[k][key]
                      ELSE written[k] = read[k]
      [] kind \in {"removeField", "removeIndex"} ->
            LET id == IF kind = "removeField" THEN a.fieldId ELSE a.indexId
                kept == SelectSeq(read, LAMBDA e : e.id # id)
            IN  written = kept

\* C13: in the step in which a field or index operation issues its
\* updateTable call, the attributes of the call are the table as storage
\* holds it in that step, with the whole field sequence (field operations)
\* or the whole index sequence (index operations) carrying the one change,
\* and everything else as read.
C13_FullSequenceWritten ==
    [][\A i \in DOMAIN ops :
          LET op == ops[i]
              after == OpNumbered(ops', op.n)
          IN  (op.pc = "get" /\ after # <<>> /\ after[1].pc = "write") =>
                LET read == DbGetTable(db, op.did, op.a.tableId)[1] IN
                /\ after[1].calls # {}
                /\ \A c \in after[1].calls :
                      /\ c.call = "updateTable"
                      /\ c.id = op.a.tableId
                      /\ c.attributes.id = read.id
                      /\ c.attributes.name = read.name
                      /\ c.attributes.x = read.x
                      /\ IF op.kind \in {"addField", "updateField", "removeField"}
                         THEN /\ ChangeApplied(op.kind, op.a, read.fields,
                                               c.attributes.fields)
                              /\ c.attributes.indexes = read.indexes
                         ELSE /\ ChangeApplied(op.kind, op.a, read.indexes,
                                               c.attributes.indexes)
                              /\ c.attributes.fields = read.fields]_vars

\* A removeField on a stored table of two fields has written the table with
\* the one remaining field.
C13_Witness ==
    /\ lastCall # None
    /\ lastCall[1].kind = "removeField"
    /\ lastCall[1].c.call = "updateTable"
    /\ lastCall[1].ok
    /\ lastCall[1].c.attributes.fields = <<F2>>
    /\ DbGetTable(db, "d1", "t1") # None
    /\ DbGetTable(db, "d1", "t1")[1].fields = <<F2>>

\* The tables `after` are exactly the tables of `before` that `result` names,
\* in their order in `before`, each merged with its entry in `result`.
Reconciled(before, result, after) ==
    LET kept == SelectSeq(before, LAMBDA t : t.id \in Ids(result)) IN
    /\ Len(after) = Len(kept)
    /\ \A k \in DOMAIN kept :
          LET u == Find(result, kept[k].id)[1] IN
          \A key \in DOMAIN kept[k] :
              after[k][key] = IF key \in DOMAIN u THEN u[key] ELSE kept[k][key]

\* C14: the step that invokes updateTablesState leaves the Store with the
\* reconciled tables, and the step in which an updateTablesState pushes its
\* Action pushes exactly one, whose undoData is the Table sequence the Store
\* held right before the operation's mutation and whose redoData is the one
\* it held right after.
C14_BulkReconciliation ==
    [][/\ (Invoked /\ NewestOp.kind = "updateTablesState") =>
            Reconciled(tables, updateFn(NewestOp.a.fn, tables), tables')
       /\ (/\ Len(undoStack') > Len(undoStack)
           /\ undoStack'[Len(undoStack')].action = "updateTablesState") =>
            /\ Len(undoStack') = Len(undoStack) + 1
            /\ undoStack'[Len(undoStack')].undoData.tables = ghost'[1].pre
            /\ undoStack'[Len(undoStack')].redoData.tables = ghost'[1].post]_vars

\* C15: the undoData of the Action that a removeRelationships pushed last
\* holds exactly the relationships that the operation removed from the Store.
C15_UndoDataIsRemovedSet ==
    (ghost # None /\ ghost[1].act.action = "removeRelationships") =>
        ghost[1].act.undoData.relationships =
            SelectSeq(ghost[1].pre,
                      LAMBDA r : InSeq(r.id, ghost[1].act.redoData.relationshipsIds))

AddKinds == {"addTable", "addField", "addIndex", "addRelationship",
             "addRelationships"}

\* The Action an add operation with arguments a is to record: redoData the
\* added entity or entities, undoData their id or ids.
AddAction(kind, a) ==
    CASE kind = "addTable" ->
            Action(kind, [table |-> a.table], [tableId |-> a.table.id])
      [] kind = "addField" ->
            Action(kind, [tableId |-> a.tableId, field |-> a.field],
                   [tableId |-> a.tableId, fieldId |-> a.field.id])
      [] kind = "addIndex" ->
            Action(kind, [tableId |-> a.tableId, index |-> a.index],
                   [tableId |-> a.tableId, indexId |-> a.index.id])
      [] kind = "addRelationship" ->
            Action(kind, [relationship |-> a.relationship],
                   [relationshipId |-> a.relationship.id])
      [] kind = "addRelationships" ->
            Action(kind, [relationships |-> a.relationships],
                   [relationshipIds |->
                       [i \in DOMAIN a.relationships |-> a.relationships[i].id]])

\* C16: the step in which the promise of an add operation resolves, the
\* operation having been invoked with updateHistory = true and having changed
\* the Store, pushes exactly the operation's Action and leaves the redo
\* branch empty.
C16_AddAlwaysRecords ==
    [][(/\ done' # done
        /\ done'[1].kind \in AddKinds
        /\ done'[1].uh
        /\ done'[1].status = "resolved"
        /\ done'[1].changed) =>
          /\ undoStack' = Append(undoStack, AddAction(done'[1].kind, done'[1].a))
          /\ redoStack' = <<>>]_vars

HistoryUnchanged == undoStack' = undoStack /\ redoStack' = redoStack

\* The operation invoked by this step has the same arguments as the one
\* invoked just before it, which was invoked with updateHistory = true under
\* the same render and none of whose calls has settled.
TwinOfPrevious ==
    /\ ops # <<>>
    /\ ops[Len(ops)].kind = NewestOp.kind
    /\ ops[Len(ops)].a = NewestOp.a
    /\ ops[Len(ops)].uh
    /\ ops[Len(ops)].n + 1 = NewestOp.n
    /\ ops[Len(ops)].pc = NewestOp.pc
    /\ ops[Len(ops)].writes = 0
    /\ ops[Len(ops)].status = "pending"
    /\ rendered # Cells

\* C17: for an operation invoked with updateHistory = false, the step that
\* invokes it, every step in which one of its storage calls settles and the
\* step in which its promise settles (resolved, returned early or rejected)
\* leave the undo stack and the redo stack as they are; the invoking step
\* applies the operation's change to the Store and issues the storage calls
\* that the same operation issues with updateHistory = true.
C17_NoHistoryWithoutFlag ==
    [][/\ (Invoked /\ n'.ops = n.ops + 1 /\ ~NewestOp.uh) =>
            /\ HistoryUnchanged
            /\ Reflects(NewestOp)
            /\ NewestOp.pc \in {"get", "write"}
            /\ TwinOfPrevious =>
                  /\ NewestOp.calls = ops[Len(ops)].calls
                  /\ NewestOp.did = ops[Len(ops)].did
       /\ (CallSettles /\ ~OpNumbered(ops, lastCall'[1].n)[1].uh) =>
            HistoryUnchanged
       /\ (done' # done /\ ~done'[1].uh) => HistoryUnchanged]_vars

\* With an Action in the log, a removeTable invoked by the caller with
\* updateHistory = false has removed a table and resolved after its write.
C17_Witness ==
    /\ done # None
    /\ done[1].kind = "removeTable"
    /\ ~done[1].uh
    /\ done[1].status = "resolved"
    /\ done[1].changed
    /\ done[1].writes = 1
    /\ n.undo = 0
    /\ Len(undoStack) = 1

\* ------------------------------------------------------------------- loads
\* Callers that also load diagrams, at any time, while operations are in
\* flight.
NextLoad ==
    \/ Render
    \/ \E id \in LoadIds : n.loads < MaxLoads /\ loadDiagram(id)
    \/ \E i \in DOMAIN ops : LoadStep(i)
    \/ \E i \in DOMAIN ops : LoadRejected(i)
    \/ \E id \in NewDiagramIds : updateDiagramId(id)
    \/ \E name \in DiagramNames : updateDiagramName(name, TRUE)
    \/ \E id \in TableIds, fieldId \in {"f1"} : createTable(id, fieldId)
    \/ \E id \in TableIds : removeTable(id, TRUE)
    \/ \E tid \in TableIds, f \in NewFields : addField(tid, f, TRUE)
    \/ \E r \in NewRelationships : addRelationship(r, TRUE)
    \/ \E id \in RelationshipIds : removeRelationship(id, TRUE)
    \/ Undo
    \/ \E i \in DOMAIN ops : GetTableStep(i)
    \/ \E i \in DOMAIN ops : \E c \in ops[i].calls : SettleOk(i, c)

SpecLoad == Init /\ [][NextLoad]_vars

\* The sequence seq lists each row that storage holds for diagram did once.
ListsRowsOf(seq, rows, did) ==
    /\ {seq[k] : k \in DOMAIN seq} = {r.row : r \in {q \in rows : q.diagramId = did}}
    /\ Len(seq) = Cardinality({q \in rows : q.diagramId = did})

\* C18: the step that invokes loadDiagram changes neither the Store nor the
\* History Log; the step in which its db.getDiagram settles leaves the
\* History Log and storage as they are and, when storage holds the diagram,
\* sets the Store's id, name and database type to the stored diagram's and
\* its tables and relationships to the stored rows of that diagram, and
\* when storage has no such diagram (or the call rejects) leaves every
\* component of the Store as it is.
C18_LoadReplacesStore ==
    [][/\ (Invoked /\ NewestOp.kind = "loadDiagram") =>
            store' = store /\ HistoryUnchanged /\ db' = db
       /\ (done' # done /\ done'[1].kind = "loadDiagram") =>
            LET diagram == DbGetDiagram(db, done'[1].a.diagramId) IN
            /\ HistoryUnchanged
            /\ db' = db
            /\ IF diagram = None \/ done'[1].status = "rejected"
               THEN store' = store
               ELSE /\ diagramId' = diagram[1].id
                    /\ diagramName' = diagram[1].name
                    /\ databaseType' = diagram[1].databaseType
                    /\ ListsRowsOf(tables', db.tables, diagram[1].id)
                    /\ ListsRowsOf(relationships', db.relationships,
                                   diagram[1].id)]_vars

\* With an Action on the redo branch and a Store that was constructed empty,
\* a load of the saved diagram has resolved: the Store holds the diagram.
C18_Witness ==
    /\ done # None
    /\ done[1].kind = "loadDiagram"
    /\ done[1].status = "resolved"
    /\ done[1].a.diagramId = "d1"
    /\ diagramId = "d1"
    /\ diagramName = "shop"
    /\ databaseType = "mysql"
    /\ Len(tables) = 1
    /\ tables[1].id = "t1"
    /\ redoStack # <<>>

\* ------------------------------------------------------- an awaiting caller
\* A caller that awaits each completion before it invokes the next
\* operation, on a loaded diagram, with ids of entities the Store holds (and
\* new ids for the entities it adds).  No storage call rejects.  A render may
\* or may not have reached the caller's callbacks between two operations.
InStoreTable(tid) == tid \in Ids(tables)
InStoreField(tid, fid) == getField(tables, tid, fid) # None
InStoreIndex(tid, xid) == getIndex(tables, tid, xid) # None
InStoreRelationship(id) == id \in Ids(relationships)

NextAwaited ==
    \/ Render
    \/ ops = <<>> /\
        \/ \E type \in DatabaseTypes : updateDatabaseType(type)
        \/ \E id \in NewDiagramIds : updateDiagramId(id)
        \/ \E name \in DiagramNames : updateDiagramName(name, TRUE)
        \/ \E id \in TableIds, fieldId \in {"f1"} : createTable(id, fieldId)
        \/ \E id \in TableIds : InStoreTable(id) /\ removeTable(id, TRUE)
        \/ \E id \in TableIds, p \in TablePatches :
              InStoreTable(id) /\ updateTable(id, p, TRUE)
        \/ \E fn \in UpdateFns : updateTablesState(fn, TRUE)
        \/ \E tid \in TableIds, f \in NewFields :
              /\ InStoreTable(tid)
              /\ ~InStoreField(tid, f.id)
              /\ addField(tid, f, TRUE)
        \/ \E tid \in TableIds, fid \in FieldIds, p \in FieldPatches :
              InStoreField(tid, fid) /\ updateField(tid, fid, p, TRUE)
        \/ \E tid \in TableIds, fid \in FieldIds :
              InStoreField(tid, fid) /\ removeField(tid, fid, TRUE)
        \/ \E tid \in TableIds, x \in NewIndexes :
              /\ InStoreTable(tid)
              /\ ~InStoreIndex(tid, x.id)
              /\ addIndex(tid, x, TRUE)
        \/ \E tid \in TableIds, xid \in IndexIds, p \in IndexPatches :
              InStoreIndex(tid, xid) /\ updateIndex(tid, xid, p, TRUE)
        \/ \E tid \in TableIds, xid \in IndexIds :
              InStoreIndex(tid, xid) /\ removeIndex(tid, xid, TRUE)
        \/ \E r \in NewRelationships :
              ~InStoreRelationship(r.id) /\ addRelationship(r, TRUE)
        \/ \E rs \in NewRelationshipLists :
              /\ \A k \in DOMAIN rs : ~InStoreRelationship(rs[k].id)
              /\ addRelationships(rs, TRUE)
        \/ \E id \in RelationshipIds :
              InStoreRelationship(id) /\ removeRelationship(id, TRUE)
        \/ \E ids \in RelationshipIdLists :
              /\ \A k \in DOMAIN ids : InStoreRelationship(ids[k])
              /\ removeRelationships(ids, TRUE)
        \/ \E id \in RelationshipIds, p \in RelationshipPatches :
              InStoreRelationship(id) /\ updateRelationship(id, p, TRUE)
    \/ \E i \in DOMAIN ops : GetTableStep(i)
    \/ \E i \in DOMAIN ops : SettleEmpty(i)
    \/ \E i \in DOMAIN ops : \E c \in ops[i].calls : SettleOk(i, c)

\* The provider once it has loaded the saved diagram and rendered.
InitLoaded ==
    /\ Loaded
    /\ rendered = [diagramId |-> diagramId, diagramName |-> diagramName,
                   tables |-> tables, relationships |-> relationships]
    /\ db = InitDb
    /\ undoStack = <<>>
    /\ redoStack = <<>>
    /\ ops = <<>>
    /\ n = [ops |-> 0, undo |-> 0, loads |-> 0]
    /\ done = None
    /\ lastCall = None
    /\ ghost = None

SpecAwaited == InitLoaded /\ [][NextAwaited]_vars

\* Storage holds the diagram of the Store with the Store's name and database
\* type, and holds for it exactly the Store's tables (with their fields and
\* indexes) and relationships.
PersistedEqualsStore ==
    /\ DbGetDiagram(db, diagramId) # None
    /\ DbGetDiagram(db, diagramId)[1].name = diagramName
    /\ DbGetDiagram(db, diagramId)[1].databaseType = databaseType
    /\ ListsRowsOf(tables, db.tables, diagramId)
    /\ ListsRowsOf(relationships, db.relationships, diagramId)

\* C19: for a caller that awaits every completion, with no rejection,
\* whenever no operation is in flight the persisted diagram equals the Store.
C19_AwaitedConverges == (ops = <<>>) => PersistedEqualsStore

\* The memory transformation of an operation of the given kind and
\* arguments, applied to a Store c (a record of the five components).
MemoryEffect(kind, a, c) ==
    CASE kind = "updateDatabaseType" -> [c EXCEPT !.databaseType = a.databaseType]
      [] kind = "updateDiagramId" -> [c EXCEPT !.diagramId = a.id]
      [] kind = "updateDiagramName" -> [c EXCEPT !.diagramName = a.name]
      [] kind = "addTable" ->
            [c EXCEPT !.tables = addTableUpdater(@, a.table)]
      [] kind = "removeTable" ->
            [c EXCEPT !.tables = removeTableUpdater(@, a.id)]
      [] kind = "updateTable" ->
            [c EXCEPT !.tables = updateTableUpdater(@, a.id, a.table)]
      [] kind = "updateTablesState" ->
            [c EXCEPT !.tables = updateTables(a.fn, @)]
      [] kind = "addField" ->
            [c EXCEPT !.tables = addFieldUpdater(@, a.tableId, a.field)]
      [] kind = "updateField" ->
            [c EXCEPT !.tables =
                updateFieldUpdater(@, a.tableId, a.fieldId, a.field)]
      [] kind = "removeField" ->
            [c EXCEPT !.tables = removeFieldUpdater(@, a.tableId, a.fieldId)]
      [] kind = "addIndex" ->
            [c EXCEPT !.tables = addIndexUpdater(@, a.tableId, a.index)]
      [] kind = "updateIndex" ->
            [c EXCEPT !.tables =
                updateIndexUpdater(@, a.tableId, a.indexId, a.index)]
      [] kind = "removeIndex" ->
            [c EXCEPT !.tables = removeIndexUpdater(@, a.tableId, a.indexId)]
      [] kind = "addRelationship" ->
            [c EXCEPT !.relationships = addRelationshipUpdater(@, a.relationship)]
      [] kind = "addRelationships" ->
            [c EXCEPT !.relationships =
                addRelationshipsUpdater(@, a.relationships)]
      [] kind = "removeRelationship" ->
            [c EXCEPT !.relationships = removeRelationshipUpdater(@, a.id)]
      [] kind = "removeRelationships" ->
            [c EXCEPT !.relationships = removeRelationshipsUpdater(@, a.ids)]
      [] kind = "updateRelationship" ->
            [c EXCEPT !.relationships =
                updateRelationshipUpdater(@, a.id, a.relationship)]

FullCells == [diagramId |-> diagramId, diagramName |-> diagramName,
              databaseType |-> databaseType, tables |-> tables,
              relationships |-> relationships]

\* C20: a step that invokes an operation takes the Store to the operation's
\* memory transformation of the Store as it is (the result of the operations
\* invoked before), and no other step, in particular none in which a storage
\* call of any operation resolves or rejects, changes the Store: the Store is
\* at every moment the transformations applied in invocation order.
C20_InvocationOrder ==
    [][IF Invoked
       THEN FullCells' = MemoryEffect(NewestOp.kind, NewestOp.a, FullCells)
       ELSE store' = store]_vars

\* Of two operations invoked without awaiting, the second has completed and
\* the first is still in flight; the Store holds the change of both.
C20_Witness ==
    /\ Len(ops) = 1
    /\ ops[1].kind = "addField"
    /\ ops[1].a.tableId = "t1"
    /\ done # None
    /\ done[1].kind = "updateTable"
    /\ done[1].n = ops[1].n + 1
    /\ done[1].a.id = "t1"
    /\ getTable(tables, "t1") # None
    /\ getTable(tables, "t1")[1].name = "people"
    /\ getField(tables, "t1", "f3") # None

\* C21: when a step pushes an operation's Action on top of the Action that
\* the operation completed just before had pushed (no undo has popped
\* anything), the operation below was invoked before the one on top.
C21_HistoryInInvocationOrder ==
    [][(/\ done # None
        /\ done[1].recorded
        /\ n.undo = 0
        /\ done' # done
        /\ done'[1].recorded) =>
          done[1].n < done'[1].n]_vars

\* C22: a step that pushes an Action is the step in which the last storage
\* call of the pushing operation settles, successfully, none of its calls
\* having rejected before (or the operation had no call to make); a step in
\* which a storage call rejects, and every later step of an operation one of
\* whose calls rejected, leaves the undo stack, the redo stack and the Store
\* as they are.
C22_PushAfterSuccessfulWrites ==
    [][/\ Len(undoStack') > Len(undoStack) =>
            LET op == OpNumbered(ops, done'[1].n)[1] IN
            /\ done' # done
            /\ done'[1].status = "resolved"
            /\ op.status = "pending"
            /\ op.pc = "write"
            /\ OpNumbered(ops', op.n) = <<>>
            /\ IF op.calls = {} THEN lastCall' = lastCall
               ELSE /\ CallSettles
                    /\ lastCall'[1].ok
                    /\ lastCall'[1].n = op.n
                    /\ op.calls = {lastCall'[1].c}
       /\ (CallSettles /\ ~lastCall'[1].ok) =>
            HistoryUnchanged /\ store' = store
       /\ \A i \in DOMAIN ops :
            (/\ ops[i].status = "rejected"
             /\ OpNumbered(ops', ops[i].n) # <<ops[i]>>) =>
                HistoryUnchanged /\ store' = store]_vars

\* With an Action on the redo branch, an addTable invoked with updateHistory
\* = true has been rejected by storage: its table is in the Store, no Action
\* was pushed and the redo branch is as it was.
C22_Witness ==
    /\ done # None
    /\ done[1].kind = "addTable"
    /\ done[1].uh
    /\ done[1].status = "rejected"
    /\ done[1].a.table.id \in Ids(tables)
    /\ undoStack = <<>>
    /\ Len(redoStack) = 1

\* C23: the step that invokes updateTablesState issues, all at once, exactly
\* one updateTable call per table the step leaves in the Store, carrying that
\* table as the Store now holds it, and exactly one deleteTable call per
\* table the step drops from the Store, and no other call.
C23_CallsMatchStoreChange ==
    [][(Invoked /\ NewestOp.kind = "updateTablesState") =>
          /\ NewestOp.pc = "write"
          /\ {c \in NewestOp.calls : c.call = "updateTable"} =
                {[call |-> "updateTable", id |-> tables'[i].id,
                  attributes |-> tables'[i]] : i \in DOMAIN tables'}
          /\ {c.id : c \in {d \in NewestOp.calls : d.call = "deleteTable"}} =
                Ids(tables) \ Ids(tables')
          /\ \A c \in NewestOp.calls : c.call \in {"updateTable", "deleteTable"}
          /\ Cardinality(NewestOp.calls) = Len(tables)]_vars

TableKinds == {"addTable", "removeTable", "updateTable", "updateTablesState"}
                \cup FieldIndexKinds

RelationshipKinds == {"addRelationship", "addRelationships",
                      "removeRelationship", "removeRelationships",
                      "updateRelationship"}

\* C24: the step that invokes removeField leaves every table in place with
\* its index sequence as it was and leaves the Relationship sequence as it
\* was; the step that invokes removeTable leaves the Relationship sequence as
\* it was; a step that changes the Relationship sequence invokes a
\* relationship operation and a step that changes the Table sequence invokes
\* a table, field or index operation.
C24_NoCascade ==
    [][/\ (Invoked /\ NewestOp.kind = "removeField") =>
            /\ relationships' = relationships
            /\ Len(tables') = Len(tables)
            /\ \A i \in DOMAIN tables :
                  /\ tables'[i].id = tables[i].id
                  /\ tables'[i].indexes = tables[i].indexes
       /\ (Invoked /\ NewestOp.kind = "removeTable") =>
            relationships' = relationships
       /\ relationships' # relationships =>
            Invoked /\ NewestOp.kind \in RelationshipKinds
       /\ tables' # tables =>
            Invoked /\ NewestOp.kind \in TableKinds]_vars

\* removeField("t1", "f1") has completed and removed the field from the
\* Store, while index i1 of t1 still lists "f1" and relationship r1 is still
\* there.
C24_Witness ==
    /\ done # None
    /\ done[1].kind = "removeField"
    /\ done[1].a.tableId = "t1"
    /\ done[1].a.fieldId = "f1"
    /\ done[1].status = "resolved"
    /\ getTable(tables, "t1") # None
    /\ getField(tables, "t1", "f1") = None
    /\ getIndex(tables, "t1", "i1") # None
    /\ getIndex(tables, "t1", "i1")[1].fieldIds = <<"f1">>
    /\ getRelationship(relationships, "r1") # None

\* C25: the step that invokes updateDiagramId(id) leaves the Store with
\* diagram id `id` and issues exactly one call, updateDiagram keyed by the
\* diagram id the Store held right before the step, with attributes {id};
\* neither that step nor the step in which an updateDiagramId or an
\* updateDatabaseType completes changes the undo stack or the redo stack.
C25_RotationKeyedByStoreId ==
    [][/\ (Invoked /\ NewestOp.kind = "updateDiagramId") =>
            /\ diagramId' = NewestOp.a.id
            /\ NewestOp.calls = {[call |-> "updateDiagram", id |-> diagramId,
                                  attributes |-> [id |-> NewestOp.a.id]]}
            /\ HistoryUnchanged
       /\ (Invoked /\ NewestOp.kind = "updateDatabaseType") => HistoryUnchanged
       /\ (/\ done' # done
           /\ done'[1].kind \in {"updateDiagramId", "updateDatabaseType"}) =>
            HistoryUnchanged]_vars

====
